---- MODULE Spec2Model ----
(***************************************************************************)
(* Model of main.py: a moving-average crossover strategy with a signal     *)
(* engine (calculate_signals), a backtest evaluator (backtest) and a live  *)
(* trading loop (live_trade).                                              *)
(*                                                                         *)
(* Floating-point values are modelled as exact rationals <<n, d>> in       *)
(* lowest terms with d > 0; NaN is <<0, 0>>.  Close prices are whole       *)
(* price units.  Source indices are 0-based, model indices 1-based: the    *)
(* source's bar i is the model's bar i + 1.                                *)
(***************************************************************************)
EXTENDS Integers, Sequences, FiniteSets, TLC

\* ------------------------------------------------------------------ bounds
MaxPrice == 3       \* close prices and broker quotes range over 1..MaxPrice
MaxTail == 3        \* bars of arbitrary prices after the constant lead-in
MaxEquityK == 5     \* account equity ranges over EquityStep * (0..MaxEquityK)
EquityStep == 5

\* --------------------------------------------------------- program constants
SHORT_MA == 20
LONG_MA == 50
POSITION_SIZE == <<1, 10>>
STOP_LOSS_PCT == <<1, 20>>
CLOSED_SLEEP == 3600
ITER_SLEEP == 60
ERROR_SLEEP == 60
BACKTEST_WINDOW_DAYS == 365
LIVE_WINDOW_DAYS == 60

\* ------------------------------------------------------- float arithmetic
Abs(n) == IF n < 0 THEN -n ELSE n

RECURSIVE GCD(_, _)
GCD(a, b) == IF b = 0 THEN a ELSE GCD(b, a % b)

\* the float n / d (d > 0)
R(n, d) == LET g == GCD(Abs(n), d) IN <<n \div g, d \div g>>

\* the float of an integer
F(n) == <<n, 1>>

NaN == <<0, 0>>

isna(x) == x[2] = 0

Add(a, b) == IF isna(a) \/ isna(b) THEN NaN
             ELSE R(a[1] * b[2] + b[1] * a[2], a[2] * b[2])

Sub(a, b) == IF isna(a) \/ isna(b) THEN NaN
             ELSE R(a[1] * b[2] - b[1] * a[2], a[2] * b[2])

Mul(a, b) == IF isna(a) \/ isna(b) THEN NaN
             ELSE R(a[1] * b[1], a[2] * b[2])

\* a / b for b > 0 (prices are positive)
Div(a, b) == IF isna(a) \/ isna(b) THEN NaN
             ELSE R(a[1] * b[2], a[2] * b[1])

\* comparisons: any comparison with NaN is False
GT(a, b) == ~isna(a) /\ ~isna(b) /\ a[1] * b[2] > b[1] * a[2]
LT(a, b) == ~isna(a) /\ ~isna(b) /\ a[1] * b[2] < b[1] * a[2]
GE(a, b) == ~isna(a) /\ ~isna(b) /\ a[1] * b[2] >= b[1] * a[2]
LE(a, b) == ~isna(a) /\ ~isna(b) /\ a[1] * b[2] <= b[1] * a[2]

\* int(x): truncation toward zero
int(x) == IF x[1] >= 0 THEN x[1] \div x[2] ELSE -((-x[1]) \div x[2])

\* ------------------------------------------------------------ price series
\* A price series is a constant lead-in followed by an arbitrary tail.
RECURSIVE Tails(_)
Tails(n) == IF n = 0 THEN {<<>>}
            ELSE LET T == Tails(n - 1)
                 IN T \cup {Append(t, p) : t \in {u \in T : Len(u) = n - 1}, p \in 1..MaxPrice}

LeadLens == {0, 1, SHORT_MA, LONG_MA - 1, LONG_MA}

Lead(p, n) == [i \in 1..n |-> p]

PriceSeries == {Lead(p, n) \o t : p \in 1..MaxPrice, n \in LeadLens, t \in Tails(MaxTail)}

\* ------------------------------------------------------------ signal engine
\* a column the frame does not have yet
NoColumn == <<>>

RECURSIVE Sum(_, _, _)
Sum(close, lo, hi) == IF lo > hi THEN 0 ELSE close[hi] + Sum(close, lo, hi - 1)

\* the undefined leading means filled with 0
rolling_mean_zero_filled(close, w) ==
    [i \in 1..Len(close) |-> IF i < w THEN F(0) ELSE R(Sum(close, i - w + 1, i), w)]

\* close.rolling(window=w).mean(): undefined until w bars are available
rolling_mean(close, w) ==
    [i \in 1..Len(close) |-> IF i < w THEN NaN ELSE R(Sum(close, i - w + 1, i), w)]

Buy == F(1)
Sell == F(-1)
Hold == F(0)

\* the current bar compared with >= and <= instead of > and <
crossover_nonstrict(short, long, i) ==
    IF GE(short[i], long[i]) /\ LE(short[i - 1], long[i - 1]) THEN Buy
    ELSE IF LE(short[i], long[i]) /\ GE(short[i - 1], long[i - 1]) THEN Sell
    ELSE Hold

\* the bar before compared with < and > instead of <= and >=
crossover_strict_before(short, long, i) ==
    IF GT(short[i], long[i]) /\ LT(short[i - 1], long[i - 1]) THEN Buy
    ELSE IF LT(short[i], long[i]) /\ GT(short[i - 1], long[i - 1]) THEN Sell
    ELSE Hold

\* the bar before not looked at: a signal at every bar of a strict difference
crossover_level(short, long, i) ==
    IF GT(short[i], long[i]) THEN Buy
    ELSE IF LT(short[i], long[i]) THEN Sell
    ELSE Hold

\* the loop body of calculate_signals at bar i (i >= 2)
crossover(short, long, i) ==
    IF GT(short[i], long[i]) /\ LE(short[i - 1], long[i - 1]) THEN Buy
    ELSE IF LT(short[i], long[i]) /\ GE(short[i - 1], long[i - 1]) THEN Sell
    ELSE Hold

signals(short, long) ==
    [i \in 1..Len(short) |-> IF i = 1 THEN Hold ELSE crossover(short, long, i)]

\* Series.replace(old, new)
replace(col, old, new) == [i \in 1..Len(col) |-> IF col[i] = old THEN new ELSE col[i]]

\* Series.ffill(): a missing value takes the last value before it that is not missing
RECURSIVE ffill_from(_, _, _, _)
ffill_from(col, i, last, out) ==
    IF i > Len(col) THEN out
    ELSE LET v == IF isna(col[i]) THEN last ELSE col[i]
         IN ffill_from(col, i + 1, v, Append(out, v))

ffill(col) == ffill_from(col, 1, NaN, <<>>)

position_of(signal) == ffill(replace(signal, Sell, Hold))

\* the Signal column not reset to 0: a second application adds the new
\* signals onto the ones already in the frame
calculate_signals_accumulating(d) ==
    LET short == rolling_mean(d.Close, SHORT_MA)
        long == rolling_mean(d.Close, LONG_MA)
        new == signals(short, long)
        sig == IF d.Signal = NoColumn THEN new
               ELSE [i \in 1..Len(new) |-> Add(d.Signal[i], new[i])]
    IN [Close |-> d.Close, Short_MA |-> short, Long_MA |-> long,
        Signal |-> sig, Position |-> position_of(sig),
        Returns |-> d.Returns, Strategy_Returns |-> d.Strategy_Returns]

calculate_signals(d) ==
    LET short == rolling_mean(d.Close, SHORT_MA)
        long == rolling_mean(d.Close, LONG_MA)
        sig == signals(short, long)
    IN [Close |-> d.Close, Short_MA |-> short, Long_MA |-> long,
        Signal |-> sig, Position |-> position_of(sig),
        Returns |-> d.Returns, Strategy_Returns |-> d.Strategy_Returns]

\* --------------------------------------------------------------- backtest
\* Series.pct_change()
pct_change(close) ==
    [i \in 1..Len(close) |-> IF i = 1 THEN NaN
                             ELSE R(close[i] - close[i - 1], close[i - 1])]

\* the position column used without its one-bar lag
shift_unlagged(col) == col

\* Series.shift(1)
shift(col) == [i \in 1..Len(col) |-> IF i = 1 THEN NaN ELSE col[i - 1]]

times(a, b) == [i \in 1..Len(a) |-> Mul(a[i], b[i])]

one_plus(col) == [i \in 1..Len(col) |-> Add(F(1), col[i])]

\* Series.cumprod(): NaN entries are skipped and stay NaN in the result
RECURSIVE cumprod_from(_, _, _, _)
cumprod_from(col, i, acc, out) ==
    IF i > Len(col) THEN out
    ELSE IF isna(col[i]) THEN cumprod_from(col, i + 1, acc, Append(out, NaN))
    ELSE LET p == Mul(acc, col[i])
         IN cumprod_from(col, i + 1, p, Append(out, p))

cumprod(col) == cumprod_from(col, 1, F(1), <<>>)

strategy_returns(pos, ret) == times(shift(pos), ret)

backtest_columns(d) ==
    LET ret == pct_change(d.Close)
    IN [d EXCEPT !.Returns = ret, !.Strategy_Returns = strategy_returns(d.Position, ret)]

\* (1 + Strategy_Returns).cumprod().iloc[-1] - 1 (the series is not empty)
backtest_total(d) ==
    LET cp == cumprod(one_plus(d.Strategy_Returns))
    IN Sub(cp[Len(cp)], F(1))

\* ------------------------------------------------------------ live inputs
Equities == {EquityStep * k : k \in 0..MaxEquityK}

Quotes == 1..MaxPrice

\* data['Signal'].iloc[-1] and data['Close'].iloc[-1]; <<>> when the frame
\* is empty and iloc[-1] raises IndexError
latest(d) == IF Len(d.Close) = 0 THEN <<>>
             ELSE <<d.Signal[Len(d.Signal)], d.Close[Len(d.Close)]>>

\* the share count rounded up instead of truncated
get_position_size_ceil(account_value, close) ==
    LET x == Div(Mul(F(account_value), POSITION_SIZE), F(close))
    IN IF x[2] = 1 THEN x[1] ELSE int(x) + 1

\* int((account_value * POSITION_SIZE) / api.get_latest_bar(SYMBOL).close)
get_position_size(account_value, close) ==
    int(Div(Mul(F(account_value), POSITION_SIZE), F(close)))

\* position == 1 and latest_price <= buy_price * (1 - STOP_LOSS_PCT)
stop_loss_hit(pos, price, bought) ==
    pos = 1 /\ LE(F(price), Mul(F(bought), Sub(F(1), STOP_LOSS_PCT)))

\* ------------------------------------------------------------------ state
VARIABLES
    main_pc,        \* main(): "fetched", "signals", "done", "raised"; "live" in live_trade
    data,           \* the DataFrame of main(): column name -> column
    total_return,   \* the value backtest returns
    pc,             \* live_trade: "top", "closed", "fetch", "account", "stoploss",
                    \*             "trade", "sleep", "except"; "off" outside live_trade
    position,       \* live_trade: shares held
    buy_price,      \* live_trade: price recorded at the last buy
    latest_signal,  \* live_trade local (<<>> while unbound)
    latest_price,   \* live_trade local (0 while unbound)
    equity,         \* live_trade local (0 while unbound)
    iter,           \* history of the current iteration (observation only)
    slept,          \* seconds slept since the last market-status query (observation only)
    qtick,          \* flips at every market-status query (observation only)
    last_order      \* the last order whose submission succeeded (observation only)

mainvars == <<main_pc, data, total_return>>
livevars == <<pc, position, buy_price, latest_signal, latest_price, equity, iter, slept, qtick,
              last_order>>
vars == <<main_pc, data, total_return, pc, position, buy_price, latest_signal,
          latest_price, equity, iter, slept, qtick, last_order>>

frame(close) == [Close |-> close, Short_MA |-> NoColumn, Long_MA |-> NoColumn,
                 Signal |-> NoColumn, Position |-> NoColumn,
                 Returns |-> NoColumn, Strategy_Returns |-> NoColumn]

\* the most weekdays that days consecutive calendar days can hold
max_weekdays(days) == 5 * (days \div 7) + (IF days % 7 < 5 THEN days % 7 ELSE 5)

\* the series a fetch of LIVE_WINDOW_DAYS calendar days of daily bars can return
WindowSeries == {close \in PriceSeries : Len(close) <= max_weekdays(LIVE_WINDOW_DAYS)}

WindowOutcomes == {latest(calculate_signals(frame(close))) : close \in WindowSeries}

\* what the live loop can read from a fetched and annotated frame
LiveOutcomes == {latest(calculate_signals(frame(close))) : close \in PriceSeries}

NoIteration == [market |-> "none", fetched |-> FALSE, account |-> FALSE,
                decided |-> FALSE, traded |-> FALSE, quote |-> 0, qty |-> 0,
                attempts |-> <<>>, error |-> "none", position0 |-> 0, buy_price0 |-> 0]

NoOrder == [side |-> "none", qty |-> 0]

\* live_trade before its loop: position = 0, buy_price = 0
LiveStart ==
    /\ position = 0
    /\ buy_price = 0
    /\ latest_signal = <<>>
    /\ latest_price = 0
    /\ equity = 0
    /\ iter = NoIteration
    /\ slept = 0
    /\ qtick = FALSE
    /\ last_order = NoOrder

\* ------------------------------------------------------------------ main()
\* main(): data = fetch_data(...)
MainInit ==
    /\ main_pc = "fetched"
    /\ \E close \in PriceSeries : data = frame(close)
    /\ total_return = NaN
    /\ pc = "off"
    /\ LiveStart

\* main(): data = calculate_signals(data)
MainSignals ==
    /\ main_pc = "fetched"
    /\ data' = calculate_signals(data)
    /\ main_pc' = "signals"
    /\ UNCHANGED total_return
    /\ UNCHANGED livevars

\* main(): backtest(data)
MainBacktest ==
    /\ main_pc = "signals"
    /\ data' = backtest_columns(data)
    /\ IF Len(data.Close) = 0
       THEN main_pc' = "raised" /\ UNCHANGED total_return
       ELSE main_pc' = "done" /\ total_return' = backtest_total(data')
    /\ UNCHANGED livevars

MainNext == MainSignals \/ MainBacktest

MainSpec == MainInit /\ [][MainNext]_vars

\* calculate_signals applied once more to the frame it has annotated, before
\* or after backtest has added its columns
MainReapply ==
    /\ main_pc \in {"signals", "done", "raised"}
    /\ data' = calculate_signals(data)
    /\ main_pc' = "reapplied"
    /\ UNCHANGED total_return
    /\ UNCHANGED livevars

ReapplyNext == MainSignals \/ MainBacktest \/ MainReapply

ReapplySpec == MainInit /\ [][ReapplyNext]_vars

\* -------------------------------------------------------------- live_trade
Init ==
    /\ main_pc = "live"
    /\ data = frame(<<>>)
    /\ total_return = NaN
    /\ pc = "top"
    /\ LiveStart

\* an exception raised inside the try block
raise(kind) ==
    /\ pc' = "except"
    /\ iter' = [iter EXCEPT !.error = kind]

\* the live state assigned before the submission is known to have succeeded
submit_order_early(side, q, via, it, new_position, new_buy_price, next_pc) ==
    \E ok \in BOOLEAN :
        /\ iter' = [it EXCEPT !.attempts = Append(@, [side |-> side, qty |-> q, via |-> via, ok |-> ok]),
                              !.error = IF ok THEN @ ELSE "order"]
        /\ position' = new_position
        /\ buy_price' = new_buy_price
        /\ last_order' = IF ok THEN [side |-> side, qty |-> q] ELSE last_order
        /\ pc' = IF ok THEN next_pc ELSE "except"

\* api.submit_order(...) followed by the assignments after it; the
\* assignments are not reached when the submission raises
submit_order(side, q, via, it, new_position, new_buy_price, next_pc) ==
    \E ok \in BOOLEAN :
        /\ iter' = [it EXCEPT !.attempts = Append(@, [side |-> side, qty |-> q, via |-> via, ok |-> ok]),
                              !.error = IF ok THEN @ ELSE "order"]
        /\ IF ok
           THEN /\ position' = new_position
                /\ buy_price' = new_buy_price
                /\ last_order' = [side |-> side, qty |-> q]
                /\ pc' = next_pc
           ELSE /\ UNCHANGED <<position, buy_price, last_order>>
                /\ pc' = "except"

\* the market test inverted: waits while open, trades while closed
LiveClock_inverted ==
    /\ pc = "top"
    /\ \E r \in {"open", "closed", "raised"} :
        /\ iter' = [NoIteration EXCEPT !.market = r, !.position0 = position,
                                       !.buy_price0 = buy_price,
                                       !.error = IF r = "raised" THEN "clock" ELSE "none"]
        /\ pc' = CASE r = "open" -> "closed"
                   [] r = "closed" -> "fetch"
                   [] r = "raised" -> "except"
    /\ slept' = 0
    /\ qtick' = ~qtick
    /\ UNCHANGED <<position, buy_price, last_order, latest_signal, latest_price, equity>>
    /\ UNCHANGED mainvars

\* while True: try: if not is_market_open(): ...
LiveClock ==
    /\ pc = "top"
    /\ \E r \in {"open", "closed", "raised"} :
        /\ iter' = [NoIteration EXCEPT !.market = r, !.position0 = position,
                                       !.buy_price0 = buy_price,
                                       !.error = IF r = "raised" THEN "clock" ELSE "none"]
        /\ pc' = CASE r = "open" -> "fetch"
                   [] r = "closed" -> "closed"
                   [] r = "raised" -> "except"
    /\ slept' = 0
    /\ qtick' = ~qtick
    /\ UNCHANGED <<position, buy_price, last_order, latest_signal, latest_price, equity>>
    /\ UNCHANGED mainvars

\* time.sleep(3600); continue
LiveClosedSleep ==
    /\ pc = "closed"
    /\ slept' = CLOSED_SLEEP
    /\ pc' = "top"
    /\ UNCHANGED <<position, buy_price, last_order, latest_signal, latest_price, equity, iter, qtick>>
    /\ UNCHANGED mainvars

\* data = fetch_data(...); data = calculate_signals(data); latest_signal,
\* latest_price; outcomes is what the fetched frames can yield
fetch_and_read(outcomes) ==
    /\ pc = "fetch"
    /\ \/ /\ raise("fetch")
          /\ UNCHANGED <<latest_signal, latest_price>>
       \/ \E out \in outcomes :
            IF out = <<>>
            THEN /\ pc' = "except"
                 /\ iter' = [iter EXCEPT !.fetched = TRUE, !.error = "signals"]
                 /\ UNCHANGED <<latest_signal, latest_price>>
            ELSE /\ latest_signal' = out[1]
                 /\ latest_price' = out[2]
                 /\ iter' = [iter EXCEPT !.fetched = TRUE]
                 /\ pc' = "account"
    /\ UNCHANGED <<position, buy_price, last_order, equity, slept, qtick>>
    /\ UNCHANGED mainvars

\* the fetch with a data gateway that may return any price series
LiveFetch == fetch_and_read(LiveOutcomes)

\* the fetch with a data gateway that returns at most one daily bar per
\* weekday of the LIVE_WINDOW_DAYS calendar days asked for
LiveFetchWindow == fetch_and_read(WindowOutcomes)

\* account = api.get_account(); equity = float(account.equity)
LiveAccount ==
    /\ pc = "account"
    /\ \/ /\ raise("account")
          /\ UNCHANGED equity
       \/ \E e \in Equities :
            /\ equity' = e
            /\ iter' = [iter EXCEPT !.account = TRUE]
            /\ pc' = "stoploss"
    /\ UNCHANGED <<position, buy_price, last_order, latest_signal, latest_price, slept, qtick>>
    /\ UNCHANGED mainvars

\* the stop-loss branch; its continue goes back to the top of the loop
LiveStopLoss ==
    /\ pc = "stoploss"
    /\ IF stop_loss_hit(position, latest_price, buy_price)
       THEN submit_order("sell", position, "stop-loss", [iter EXCEPT !.decided = TRUE],
                         0, buy_price, "top")
       ELSE /\ iter' = [iter EXCEPT !.decided = TRUE]
            /\ pc' = "trade"
            /\ UNCHANGED <<position, buy_price, last_order>>
    /\ UNCHANGED <<latest_signal, latest_price, equity, slept, qtick>>
    /\ UNCHANGED mainvars

\* the buy branch taken whatever is held
wants_buy_any(sig, pos) == sig = Buy

\* if latest_signal == 1 and position == 0
wants_buy(sig, pos) == sig = Buy /\ pos = 0

\* the sell branch taken whatever is held
wants_sell_any(sig, pos) == sig = Sell

\* elif latest_signal == -1 and position > 0
wants_sell(sig, pos) == sig = Sell /\ pos > 0

\* the entry price recorded although no order was submitted
no_order_records_price(it) ==
    /\ iter' = it
    /\ pc' = "sleep"
    /\ buy_price' = latest_price
    /\ UNCHANGED <<position, last_order>>

\* no branch submits an order: control falls through to the sleep
no_order(it) ==
    /\ iter' = it
    /\ pc' = "sleep"
    /\ UNCHANGED <<position, buy_price, last_order>>

\* the signal-driven branches
LiveTrade ==
    /\ pc = "trade"
    /\ IF wants_buy(latest_signal, position)
       THEN \/ /\ raise("quote")
               /\ UNCHANGED <<position, buy_price, last_order>>
            \/ \E q \in Quotes :
                LET qty == get_position_size(equity, q)
                    it == [iter EXCEPT !.traded = TRUE, !.quote = q, !.qty = qty]
                IN IF qty > 0
                   THEN submit_order("buy", qty, "signal", it, qty, latest_price, "sleep")
                   ELSE no_order(it)
       ELSE IF wants_sell(latest_signal, position)
       THEN submit_order("sell", position, "signal", [iter EXCEPT !.traded = TRUE],
                         0, buy_price, "sleep")
       ELSE no_order([iter EXCEPT !.traded = TRUE])
    /\ UNCHANGED <<latest_signal, latest_price, equity, slept, qtick>>
    /\ UNCHANGED mainvars

\* time.sleep(60) at the end of the try block
LiveSleep ==
    /\ pc = "sleep"
    /\ slept' = ITER_SLEEP
    /\ pc' = "top"
    /\ UNCHANGED <<position, buy_price, last_order, latest_signal, latest_price, equity, iter, qtick>>
    /\ UNCHANGED mainvars

\* the handler lets the exception out of the loop
LiveExcept_reraise ==
    /\ pc = "except"
    /\ pc' = "exit"
    /\ UNCHANGED <<position, buy_price, last_order, latest_signal, latest_price, equity, iter, slept, qtick>>
    /\ UNCHANGED mainvars

\* except Exception as e: logging.error(...); time.sleep(60)
LiveExcept ==
    /\ pc = "except"
    /\ slept' = ERROR_SLEEP
    /\ pc' = "top"
    /\ UNCHANGED <<position, buy_price, last_order, latest_signal, latest_price, equity, iter, qtick>>
    /\ UNCHANGED mainvars

Next ==
    \/ LiveClock
    \/ LiveClosedSleep
    \/ LiveFetch
    \/ LiveAccount
    \/ LiveStopLoss
    \/ LiveTrade
    \/ LiveSleep
    \/ LiveExcept

Spec == Init /\ [][Next]_vars

WindowNext ==
    \/ LiveClock
    \/ LiveClosedSleep
    \/ LiveFetchWindow
    \/ LiveAccount
    \/ LiveStopLoss
    \/ LiveTrade
    \/ LiveSleep
    \/ LiveExcept

\* the live loop fed by the daily bars of its own fetch window
WindowSpec == Init /\ [][WindowNext]_vars

\* every call of the single-threaded loop returns or raises, so the loop
\* keeps taking steps
FairSpec == Spec /\ WF_vars(Next)

\* ================================================================= claims
\* the bars of main()'s frame once calculate_signals has annotated it
Annotated == main_pc \in {"signals", "done", "raised"}

Bars == 1..Len(data.Close)

BuyBars == {i \in Bars : data.Signal[i] = Buy}

SellBars == {i \in Bars : data.Signal[i] = Sell}

\* the most recent non-Hold signal at or before bar i (Hold when there is none)
RECURSIVE LastNonHold(_, _)
LastNonHold(sig, i) ==
    IF i = 0 THEN Hold
    ELSE IF sig[i] # Hold THEN sig[i]
    ELSE LastNonHold(sig, i - 1)

Long == F(1)
Flat == F(0)

\* close[j] / close[i] - 1
CloseToClose(i, j) == Sub(R(data.Close[j], data.Close[i]), F(1))

\* C1: after calculate_signals, the position at every bar is Long exactly
\* when the most recent non-Hold signal at or before that bar is Buy, and
\* Flat otherwise; a Long position persists over Hold bars until a Sell.
C1_PositionFollowsLastSignal ==
    Annotated =>
        \A i \in Bars :
            data.Position[i] = IF LastNonHold(data.Signal, i) = Buy THEN Long ELSE Flat

\* C7: when the signals hold exactly one Buy, at bar k, and exactly one
\* Sell, at a later bar m, the backtest's total return is close[m]/close[k] - 1
\* and the position is Flat before k, Long on k..m-1 and Flat from m on.
C7_SingleRoundTripReturn ==
    (main_pc = "done" /\ Cardinality(BuyBars) = 1 /\ Cardinality(SellBars) = 1) =>
        LET k == CHOOSE i \in BuyBars : TRUE
            m == CHOOSE i \in SellBars : TRUE
        IN k < m =>
            /\ total_return = CloseToClose(k, m)
            /\ \A i \in Bars :
                data.Position[i] = IF k <= i /\ i < m THEN Long ELSE Flat

\* C8: after backtest, at every bar i after the first the strategy return
\* is the position of bar i-1 times the close-to-close return of bar i; with
\* a single Buy at bar k the strategy return is 0 at k and equals the
\* close-to-close return at k+1.
C8_StrategyReturnLagsOneBar ==
    main_pc \in {"done", "raised"} =>
        /\ \A i \in Bars \ {1} :
            /\ data.Returns[i] = R(data.Close[i] - data.Close[i - 1], data.Close[i - 1])
            /\ data.Strategy_Returns[i] = Mul(data.Position[i - 1], data.Returns[i])
        /\ Cardinality(BuyBars) = 1 =>
            LET k == CHOOSE i \in BuyBars : TRUE
            IN /\ data.Strategy_Returns[k] = F(0)
               /\ k + 1 \in Bars => data.Strategy_Returns[k + 1] = data.Returns[k + 1]

\* a backtest of a series with a single Buy whose next bar moves the price
C8_Witness ==
    /\ main_pc = "done"
    /\ Cardinality(BuyBars) = 1
    /\ LET k == CHOOSE i \in BuyBars : TRUE
       IN /\ k + 1 \in Bars
          /\ data.Returns[k + 1] # F(0)
          /\ data.Strategy_Returns[k + 1] = data.Returns[k + 1]

\* ------------------------------------------------------- live-loop claims
\* latest_price <= entry_price * (1 - STOP_LOSS_PCT), in exact arithmetic
AtOrBelowStop(price, entry) == 100 * price <= 95 * entry

FailedAttempts == {i \in 1..Len(iter.attempts) : ~iter.attempts[i].ok}

\* C2: an iteration that reaches the decision step while Long with any
\* quantity q > 0 and with the latest price at or below the stop level
\* submits exactly one order, a stop-loss sell of q, ends Flat when that
\* submission succeeds, and submits no signal-driven order.
C2_StopLossForAnyQuantity ==
    (iter.decided /\ iter.position0 > 0 /\ AtOrBelowStop(latest_price, iter.buy_price0)) =>
        /\ Len(iter.attempts) = 1
        /\ iter.attempts[1].side = "sell"
        /\ iter.attempts[1].via = "stop-loss"
        /\ iter.attempts[1].qty = iter.position0
        /\ iter.attempts[1].ok => position = 0
        /\ ~iter.traded

\* C3: in an iteration in which an order submission raised, the held
\* quantity and the entry price are what they were when the iteration began.
C3_FailedSubmitKeepsState ==
    FailedAttempts # {} =>
        /\ position = iter.position0
        /\ buy_price = iter.buy_price0
        /\ pc \in {"except", "top"}

\* a failed sell while Long and a failed buy while Flat, after the cooldown
C3_Witness ==
    /\ pc = "top"
    /\ FailedAttempts # {}
    /\ slept = ERROR_SLEEP
    /\ iter.attempts[1].side = "sell"
    /\ position = 2

\* C4: whatever failed inside an iteration, the handler's cooldown sleep
\* follows and then the next market-status query happens.
C4_FailureLeadsToNextQuery ==
    /\ (pc = "except" /\ ~qtick) ~> (pc = "top" /\ slept = ERROR_SLEEP /\ ~qtick)
    /\ (pc = "except" /\ qtick) ~> (pc = "top" /\ slept = ERROR_SLEEP /\ qtick)
    /\ (pc = "top" /\ ~qtick) ~> qtick
    /\ (pc = "top" /\ qtick) ~> ~qtick

\* an order submission has raised and the handler is about to run
C4_Witness == pc = "except" /\ iter.error = "order" /\ position > 0

\* the buy branch has run to its end with a quote from the broker
BuyConsidered ==
    /\ iter.traded
    /\ latest_signal = Buy
    /\ iter.position0 = 0
    /\ iter.quote > 0

BuyAttempted == Len(iter.attempts) = 1 /\ iter.attempts[1].side = "buy"

\* C5 as stated: the quantity is sized by the close of the last fetched
\* bar, the price that is recorded as entry price.
C5_SizedByLatestPrice ==
    BuyConsidered =>
        LET q == (equity * POSITION_SIZE[1]) \div (POSITION_SIZE[2] * latest_price)
        IN /\ BuyAttempted <=> q > 0
           /\ (BuyAttempted /\ iter.attempts[1].ok) =>
                /\ position = q
                /\ buy_price = latest_price
                /\ position * buy_price * POSITION_SIZE[2] <= equity * POSITION_SIZE[1]

\* C5 amended: the quantity is sized by the close of the broker's latest
\* bar; a buy of that quantity is attempted iff it is > 0, and when the
\* submission succeeds the held quantity is that quantity, the entry price
\* is latest_price, and quantity * quote <= equity * POSITION_SIZE.
C5_SizedByBrokerQuote ==
    BuyConsidered =>
        LET q == (equity * POSITION_SIZE[1]) \div (POSITION_SIZE[2] * iter.quote)
        IN /\ BuyAttempted <=> q > 0
           /\ BuyAttempted => iter.attempts[1].qty = q
           /\ (BuyAttempted /\ iter.attempts[1].ok) =>
                /\ position = q
                /\ buy_price = latest_price
                /\ position * iter.quote * POSITION_SIZE[2] <= equity * POSITION_SIZE[1]
           /\ ~(BuyAttempted /\ iter.attempts[1].ok) =>
                position = 0 /\ buy_price = iter.buy_price0

\* a successful buy sized by a quote that differs from the last close
C5_Witness ==
    /\ BuyConsidered
    /\ BuyAttempted
    /\ iter.attempts[1].ok
    /\ iter.quote # latest_price
    /\ position = 2
    /\ pc = "sleep"

\* C6: at every iteration boundary a held quantity of 0 comes with an
\* entry price of 0.
C6_FlatHasNoEntryPrice ==
    pc = "top" => (position = 0 => buy_price = 0)

\* C9: an iteration whose market-status query reports closed fetches no
\* data, queries no equity, submits no order, leaves the live state as it
\* was, and sleeps CLOSED_SLEEP seconds before the next iteration.
C9_ClosedMarketIdle ==
    iter.market = "closed" =>
        /\ ~iter.fetched
        /\ ~iter.account
        /\ iter.attempts = <<>>
        /\ position = iter.position0
        /\ buy_price = iter.buy_price0
        /\ pc \in {"closed", "top"}
        /\ pc = "top" => slept = CLOSED_SLEEP

\* a closed-market iteration has ended while shares are held
C9_Witness ==
    /\ iter.market = "closed"
    /\ pc = "top"
    /\ slept = CLOSED_SLEEP
    /\ position > 0

\* C10: whenever the loop is about to query the market status again, it
\* has slept since the previous query.
C10_SleepBetweenQueries ==
    (pc = "top" /\ iter.market # "none") => slept > 0

\* the signal branches have run in an iteration whose latest signal is Sell
SellConsidered == iter.traded /\ latest_signal = Sell

\* C11: when the stop-loss has not fired and the latest signal is Sell, a
\* Long state submits exactly one market sell, for the full held quantity,
\* and is Flat once that submission succeeds; a Flat state submits no order
\* and stays Flat.
C11_SellSignalExit ==
    SellConsidered =>
        IF iter.position0 > 0
        THEN /\ Len(iter.attempts) = 1
             /\ iter.attempts[1].side = "sell"
             /\ iter.attempts[1].via = "signal"
             /\ iter.attempts[1].qty = iter.position0
             /\ position = IF iter.attempts[1].ok THEN 0 ELSE iter.position0
        ELSE /\ iter.attempts = <<>>
             /\ position = 0

\* a sell signal has sold two held shares
C11_Witness ==
    /\ SellConsidered
    /\ iter.position0 = 2
    /\ iter.attempts[1].ok
    /\ position = 0
    /\ pc = "sleep"

\* ------------------------------------------------------ signal-engine claims
\* col is the rolling mean of the closes over w bars: undefined before bar w
MeanOfWindow(col, w) ==
    \A i \in Bars :
        IF i < w THEN isna(col[i])
        ELSE ~isna(col[i]) /\ col[i][1] * w = Sum(data.Close, i - w + 1, i) * col[i][2]

BothDefined(i) == ~isna(data.Short_MA[i]) /\ ~isna(data.Long_MA[i])

\* short_ma > long_ma at bar i, both being defined
Above(i) == data.Short_MA[i][1] * data.Long_MA[i][2] > data.Long_MA[i][1] * data.Short_MA[i][2]

\* short_ma < long_ma at bar i, both being defined
Below(i) == data.Short_MA[i][1] * data.Long_MA[i][2] < data.Long_MA[i][1] * data.Short_MA[i][2]

\* C12: the averages are the rolling means of the closes; the first bar
\* and every bar at which an average of that bar or of the bar before is
\* undefined is Hold; any other bar is Buy iff short is above long there and
\* was not above at the bar before, Sell iff short is below long there and
\* was not below at the bar before, and Hold otherwise.
C12_CrossoverRule ==
    Annotated =>
        /\ MeanOfWindow(data.Short_MA, SHORT_MA)
        /\ MeanOfWindow(data.Long_MA, LONG_MA)
        /\ \A i \in Bars :
            data.Signal[i] =
                IF i = 1 THEN Hold
                ELSE IF ~BothDefined(i) \/ ~BothDefined(i - 1) THEN Hold
                ELSE IF Above(i) /\ ~Above(i - 1) THEN Buy
                ELSE IF Below(i) /\ ~Below(i - 1) THEN Sell
                ELSE Hold

\* an annotated series with a Buy bar, a Sell bar and a bar of equal averages
C12_Witness ==
    /\ Annotated
    /\ BuyBars # {}
    /\ SellBars # {}
    /\ \E i \in Bars : BothDefined(i) /\ ~Above(i) /\ ~Below(i) /\ data.Signal[i] = Hold

\* C13: for a series with fewer bars than the long window, the empty and
\* the one-bar series included, calculate_signals returns a frame of the
\* same length in which every signal is Hold and every position is Flat.
C13_ShortSeriesAllHold ==
    (Annotated /\ Len(data.Close) < LONG_MA) =>
        /\ Len(data.Signal) = Len(data.Close)
        /\ Len(data.Position) = Len(data.Close)
        /\ \A i \in Bars : data.Signal[i] = Hold /\ data.Position[i] = Flat

\* an annotated series shorter than the long window whose short average
\* is defined and moves
C13_Witness ==
    /\ main_pc = "signals"
    /\ Len(data.Close) < LONG_MA
    /\ \E i \in Bars \ {1} :
        /\ ~isna(data.Short_MA[i - 1])
        /\ data.Short_MA[i] # data.Short_MA[i - 1]
        /\ data.Signal[i] = Hold

\* C14: the backtest of a series of at least one bar whose position is
\* Flat at every bar returns a total return of exactly 0, a single-bar
\* series included.
C14_FlatBacktestIsZero ==
    (main_pc = "done" /\ Len(data.Close) >= 1 /\ \A i \in Bars : data.Position[i] = Flat) =>
        total_return = F(0)

\* short_ma = long_ma exactly at bar i, both being defined
Tied(i) == BothDefined(i) /\ ~Above(i) /\ ~Below(i)

\* C15: a bar at which the averages are exactly equal is Hold; when short
\* is below long at a bar, equal at the next and above at the one after,
\* the Buy is at that third bar and not at the bar of equality, and
\* symmetrically for above, equal, below and Sell.
C15_TieBreak ==
    Annotated =>
        \A i \in Bars :
            /\ Tied(i) => data.Signal[i] = Hold
            /\ (i >= 3 /\ BothDefined(i - 2) /\ Below(i - 2) /\ Tied(i - 1) /\ Above(i)) =>
                    data.Signal[i] = Buy /\ data.Signal[i - 1] = Hold
            /\ (i >= 3 /\ BothDefined(i - 2) /\ Above(i - 2) /\ Tied(i - 1) /\ Below(i)) =>
                    data.Signal[i] = Sell /\ data.Signal[i - 1] = Hold

\* below, equal, above on three successive bars, with the Buy on the third
C15_Witness ==
    /\ Annotated
    /\ \E i \in Bars :
        /\ i >= 3
        /\ BothDefined(i - 2)
        /\ Below(i - 2)
        /\ Tied(i - 1)
        /\ Above(i)
        /\ data.Signal[i] = Buy

\* C16: a second application of calculate_signals, to the frame it has
\* already annotated (with or without the backtest columns), leaves the
\* closes and the length as they are and yields the same averages, signals
\* and positions as the first.
C16_SignalsIdempotent ==
    [][(main_pc # "reapplied" /\ main_pc' = "reapplied") =>
            /\ data'.Close = data.Close
            /\ Len(data'.Signal) = Len(data.Close)
            /\ data'.Short_MA = data.Short_MA
            /\ data'.Long_MA = data.Long_MA
            /\ data'.Signal = data.Signal
            /\ data'.Position = data.Position]_vars

\* a frame with a Buy, a Sell and the backtest columns, annotated twice
C16_Witness ==
    /\ main_pc = "reapplied"
    /\ BuyBars # {}
    /\ SellBars # {}
    /\ data.Strategy_Returns # NoColumn

SuccessfulAttempts == {i \in 1..Len(iter.attempts) : iter.attempts[i].ok}

\* C17: as long as no order submission has succeeded in the current
\* iteration (market closed, Hold, Buy while Long, Sell while Flat,
\* quantity 0, or an error), the held quantity and the entry price are what
\* they were when the iteration began.
C17_StateChangesOnlyOnSubmission ==
    SuccessfulAttempts = {} =>
        /\ position = iter.position0
        /\ buy_price = iter.buy_price0

\* a Buy signal while Long has gone by without an order
C17_Witness ==
    /\ pc = "sleep"
    /\ iter.traded
    /\ latest_signal = Buy
    /\ iter.attempts = <<>>
    /\ position = 2
    /\ latest_price # buy_price

\* C18: with LONG_MA bars needed and a fetch window of LIVE_WINDOW_DAYS
\* calendar days of daily bars, the latest signal is Hold in every
\* iteration, no order is ever attempted and the held quantity stays 0.
C18_WindowNeverTrades ==
    /\ latest_signal \in {<<>>, Hold}
    /\ iter.attempts = <<>>
    /\ last_order = NoOrder
    /\ position = 0
    /\ buy_price = 0

\* an iteration has passed the signal branches with money in the account
C18_Witness ==
    /\ pc = "sleep"
    /\ iter.traded
    /\ latest_signal = Hold
    /\ equity >= 2 * EquityStep
    /\ position = 0

\* this step submits an order and the submission succeeds
OrderPlaced ==
    /\ Len(iter'.attempts) = Len(iter.attempts) + 1
    /\ iter'.attempts[Len(iter'.attempts)].ok

\* C19: every successfully submitted order is the only one of its
\* iteration; the first order ever is a buy, each later order is of the
\* other side than the order before it, and a sell is for the quantity of
\* the buy before it.
C19_OrdersAlternate ==
    [][OrderPlaced =>
        LET o == iter'.attempts[Len(iter'.attempts)]
        IN /\ SuccessfulAttempts = {}
           /\ o.qty > 0
           /\ o.side = IF last_order.side = "buy" THEN "sell" ELSE "buy"
           /\ o.side = "sell" => o.qty = last_order.qty
           /\ last_order' = [side |-> o.side, qty |-> o.qty]]_vars

\* a buy of two shares has been followed by a sell of two shares
C19_Witness ==
    /\ last_order = [side |-> "sell", qty |-> 2]
    /\ position = 0
    /\ buy_price > 0

\* a bar strictly between bars i and j that satisfies Between
Strictly(i, j, Between(_)) == \E m \in Bars : i < m /\ m < j /\ Between(m)

IsSell(m) == data.Signal[m] = Sell

IsBuy(m) == data.Signal[m] = Buy

SellOrTied(m) == IsSell(m) \/ Tied(m)

BuyOrTied(m) == IsBuy(m) \/ Tied(m)

\* C20 as stated: between any two Buy signals there is a Sell signal and
\* between any two Sell signals there is a Buy signal.
C20_SignalsAlternate ==
    Annotated =>
        /\ \A i, j \in BuyBars : i < j => Strictly(i, j, IsSell)
        /\ \A i, j \in SellBars : i < j => Strictly(i, j, IsBuy)

\* C20 amended: between any two Buy signals there is a Sell signal or a
\* bar at which the averages are exactly equal, and between any two Sell
\* signals there is a Buy signal or such a bar.
C20_AlternateUnlessTied ==
    Annotated =>
        /\ \A i, j \in BuyBars : i < j => Strictly(i, j, SellOrTied)
        /\ \A i, j \in SellBars : i < j => Strictly(i, j, BuyOrTied)

\* two Buy signals with a bar of equal averages and no Sell between them
C20_Witness ==
    /\ Annotated
    /\ \E i, j \in BuyBars :
        /\ i < j
        /\ Strictly(i, j, Tied)
        /\ ~Strictly(i, j, IsSell)

====
